---- MODULE Spec2Model ----
(***************************************************************************)
(* Data transfer interfaces (src/core/xfer.c): the dispatch functions,     *)
(* the helper methods for operations tables, and the null interface.       *)
(*                                                                         *)
(* The program is single threaded and run to completion, but re-entrant:   *)
(* an operation invoked through the dispatch layer may call the dispatch   *)
(* layer again before it returns.  The model is therefore a call stack of  *)
(* frames; each action is one straight-line piece of a function, from its  *)
(* entry (or from the return of its callee) to its next call or return.    *)
(***************************************************************************)
EXTENDS Integers, Sequences, FiniteSets, TLC

(* ------------------------------------------------------------ bounds --- *)

\* Largest call depth explored (frames on the stack).
MaxDepth == 4

\* Number of I/O buffers the allocator can hand out at one time.
MaxIob == 2

\* Number of buffers the endpoints keep at one time.
MaxKept == 1

(* --------------------------------------------------------- constants --- *)

\* errno value returned (negated) by deliver_as_iobuf on allocation failure.
ENOMEM == 12

\* The null data transfer interface and the interfaces of the stages.
Null == "null_xfer"
User == {"A", "B"}
Handles == User \cup {Null}

IobIds == 1 .. MaxIob
NoIob == 0

\* Status codes an endpoint's own operation may return: success or a failure.
Status == {0, -1}
\* Reasons for close, seek positions, location types and their arguments.
Reasons == {0, -1}
Positions == {0, 1}
Locations == {[type |-> 1, args |-> <<>>], [type |-> 2, args |-> <<1>>]}
\* Raw data: a memory region and the length the caller passes with it.
RawInputs == {[data |-> <<1, 0>>, len |-> 1], [data |-> <<0, 1>>, len |-> 2]}

(* Operations an endpoint implements itself (not provided by xfer.c).      *)
NativeOps == {"native_close", "native_vredirect", "native_seek",
              "native_deliver", "native_deliver_raw"}

(* ------------------------------------------------- operations tables --- *)

\* Mutant: the null interface does not ignore close.
null_xfer_ops_close ==
    [close       |-> "native_close",
     vredirect   |-> "ignore_vredirect",
     seek        |-> "ignore_seek",
     deliver     |-> "deliver_as_raw",
     deliver_raw |-> "ignore_deliver_raw"]

\* struct xfer_interface_operations null_xfer_ops
null_xfer_ops ==
    [close       |-> "ignore_close",
     vredirect   |-> "ignore_vredirect",
     seek        |-> "ignore_seek",
     deliver     |-> "deliver_as_raw",
     deliver_raw |-> "ignore_deliver_raw"]

\* A stage that handles raw data: deliver is synthesized by deliver_as_raw.
raw_stage_ops ==
    [close       |-> "native_close",
     vredirect   |-> "native_vredirect",
     seek        |-> "native_seek",
     deliver     |-> "deliver_as_raw",
     deliver_raw |-> "native_deliver_raw"]

\* A stage that handles I/O buffers: deliver_raw is deliver_as_iobuf.
iobuf_stage_ops ==
    [close       |-> "native_close",
     vredirect   |-> "native_vredirect",
     seek        |-> "native_seek",
     deliver     |-> "native_deliver",
     deliver_raw |-> "deliver_as_iobuf"]

\* The stages of the pipeline: A handles raw data, B handles I/O buffers.
StageOps == [h \in Handles |-> IF h = "A" THEN raw_stage_ops
                               ELSE IF h = "B" THEN iobuf_stage_ops
                               ELSE null_xfer_ops]

(* -------------------------------------------------------------- state --- *)

VARIABLES
    dest,     \* dest[h]: intf.dest of interface h
    refcnt,   \* refcnt[h]: references counted on h for interfaces plugged to it
    ops,      \* ops[h]: the operations table h->op points to
    stack,    \* the call stack, innermost frame last
    iob,      \* the I/O buffer heap
    kept,     \* buffers that endpoints have kept after taking delivery
    ret       \* the most recent return: function, interface, status

vars == <<dest, refcnt, ops, stack, iob, kept, ret>>

\* No return is pending: some call or other step came after the last one.
NoRet == [fn |-> "none", xfer |-> Null, rc |-> 0]

FreeIob == [live |-> FALSE, cap |-> 0, bytes |-> <<>>]

Frame(fn, xfer, d, pc, val, args, iobuf, data, len) ==
    [fn |-> fn, xfer |-> xfer, dest |-> d, entry |-> dest[xfer], pc |-> pc,
     val |-> val, args |-> args, iobuf |-> iobuf, data |-> data, len |-> len]

Top == stack[Len(stack)]

Init ==
    /\ dest = [h \in Handles |-> Null]
    /\ refcnt = [h \in Handles |-> 0]
    /\ ops = StageOps
    /\ stack = <<>>
    /\ iob = [i \in IobIds |-> FreeIob]
    /\ kept = {}
    /\ ret = NoRet

(* ------------------------------------------- interfaces (gpxe/xfer.h) --- *)

\* xfer_dest(): the interface's current destination.
xfer_dest(xfer) == dest[xfer]

\* Mutant: the null interface is reference counted like any other.
has_refcnt_always(h) == TRUE

\* struct xfer_interface null_xfer: .refcnt = NULL.  Every other interface
\* has a reference counter.
has_refcnt(h) == h # Null

\* intf_put() / intf_get(): drop or take a reference on an interface; without
\* a counter nothing is counted.
intf_put(r, h) == IF has_refcnt(h) THEN [r EXCEPT ![h] = @ - 1] ELSE r

intf_get(r, h) == IF has_refcnt(h) THEN [r EXCEPT ![h] = @ + 1] ELSE r

\* plug(): drop the reference on the old destination, take one on the new,
\* and point the interface at it.  d and r are the destinations and the
\* reference counts before the call; the result is both after it.
plug(d, r, xfer, new) ==
    [dest |-> [d EXCEPT ![xfer] = new],
     refcnt |-> intf_get(intf_put(r, d[xfer]), new)]

\* xfer_unplug(): plug the interface into the null interface.
xfer_unplug(d, r, xfer) == plug(d, r, xfer, Null)

(* ------------------------------------------- I/O buffers (gpxe/iobuf.h) --- *)

\* The buffer alloc_iob() returns: the lowest free one.
AllocId == CHOOSE i \in IobIds : ~iob[i].live /\ \A j \in IobIds : j < i => iob[j].live

CanAlloc == \E i \in IobIds : ~iob[i].live

\* A live buffer of the given capacity holding the given bytes.
LiveIob(cap, bytes) == [live |-> TRUE, cap |-> cap, bytes |-> bytes]

\* iob_len(): the length of the data in the buffer.
iob_len(id) == Len(iob[id].bytes)

\* free_iob()
free_iob(id) == [iob EXCEPT ![id] = FreeIob]

(* ------------------------------------------------------ dispatch layer --- *)
(* Each operator gives the frames a call of the function puts on the stack *)
(* up to and including the operation it invokes: the function's own frame, *)
(* waiting, and the frame of the operation, about to run.                  *)

OpFrame(fn, xfer, val, args, iobuf, data, len) ==
    Frame(fn, xfer, Null, "run", val, args, iobuf, data, len)

\* void close ( xfer, rc ): dest->op->close ( dest, rc ) ...
close(xfer, rc) ==
    LET d == xfer_dest(xfer) IN
    << Frame("close", xfer, d, "wait", rc, <<>>, NoIob, <<>>, 0),
       OpFrame(ops[d].close, d, rc, <<>>, NoIob, <<>>, 0) >>

\* Mutant: the operation of the interface itself, not of its destination.
seek_on_self(xfer, pos) ==
    << Frame("seek", xfer, xfer, "wait", pos, <<>>, NoIob, <<>>, 0),
       OpFrame(ops[xfer].seek, xfer, pos, <<>>, NoIob, <<>>, 0) >>

\* int seek ( xfer, pos ): return dest->op->seek ( dest, pos )
seek(xfer, pos) ==
    LET d == xfer_dest(xfer) IN
    << Frame("seek", xfer, d, "wait", pos, <<>>, NoIob, <<>>, 0),
       OpFrame(ops[d].seek, d, pos, <<>>, NoIob, <<>>, 0) >>

\* Mutant: the argument list is not handed on.
vredirect_drop_args(xfer, type, args) ==
    LET d == xfer_dest(xfer) IN
    << Frame("vredirect", xfer, d, "wait", type, args, NoIob, <<>>, 0),
       OpFrame(ops[d].vredirect, d, type, <<>>, NoIob, <<>>, 0) >>

\* int vredirect ( xfer, type, args ): return dest->op->vredirect ( dest, type, args )
vredirect(xfer, type, args) ==
    LET d == xfer_dest(xfer) IN
    << Frame("vredirect", xfer, d, "wait", type, args, NoIob, <<>>, 0),
       OpFrame(ops[d].vredirect, d, type, args, NoIob, <<>>, 0) >>

\* int redirect ( xfer, type, ... ): va_start; rc = vredirect ( xfer, type, args ) ...
redirect(xfer, type, args) ==
    << Frame("redirect", xfer, Null, "wait", type, args, NoIob, <<>>, 0) >>
       \o vredirect(xfer, type, args)

\* Mutant: the operation of the interface itself, not of its destination.
deliver_on_self(xfer, iobuf) ==
    << Frame("deliver", xfer, xfer, "wait", 0, <<>>, iobuf, <<>>, 0),
       OpFrame(ops[xfer].deliver, xfer, 0, <<>>, iobuf, <<>>, 0) >>

\* int deliver ( xfer, iobuf ): return dest->op->deliver ( dest, iobuf )
deliver(xfer, iobuf) ==
    LET d == xfer_dest(xfer) IN
    << Frame("deliver", xfer, d, "wait", 0, <<>>, iobuf, <<>>, 0),
       OpFrame(ops[d].deliver, d, 0, <<>>, iobuf, <<>>, 0) >>

\* int deliver_raw ( xfer, data, len ): return dest->op->deliver_raw ( dest, data, len )
deliver_raw(xfer, data, len) ==
    LET d == xfer_dest(xfer) IN
    << Frame("deliver_raw", xfer, d, "wait", 0, <<>>, NoIob, data, len),
       OpFrame(ops[d].deliver_raw, d, 0, <<>>, NoIob, data, len) >>

\* Mutant: the destination is unplugged instead of the interface.
close_unplug_dest(f) == xfer_unplug(dest, refcnt, f.dest)

\* Mutant: close returns without unplugging.
close_unplug_never(f) == [dest |-> dest, refcnt |-> refcnt]

\* Mutant: close forgets to release the reference it held on the peer.
close_unplug_no_put(f) ==
    [dest |-> xfer_unplug(dest, refcnt, f.xfer).dest, refcnt |-> refcnt]

\* Mutant: close tears the connection down at both ends.
close_unplug_both(f) ==
    LET u == xfer_unplug(dest, refcnt, f.xfer) IN
    xfer_unplug(u.dest, u.refcnt, f.dest)

\* Mutant: the destination is cleared, not pointed at the null interface.
close_unplug_unset(f) ==
    [dest |-> [dest EXCEPT ![f.xfer] = "unset"],
     refcnt |-> intf_put(refcnt, dest[f.xfer])]

\* close(): xfer_unplug ( xfer ) after the operation has returned.
close_unplug(f) == xfer_unplug(dest, refcnt, f.xfer)

(* ------------------------------------------------------ helper methods --- *)

\* int ignore_vredirect(): return 0.
ignore_vredirect == 0

\* Mutant: seeking on an unconnected interface is an error.
ignore_seek_fails == -ENOMEM

\* int ignore_seek(): return 0.
ignore_seek == 0

\* Mutant: data that arrives at an unconnected interface is an error.
ignore_deliver_raw_fails == -ENOMEM

\* int ignore_deliver_raw(): return 0.
ignore_deliver_raw == 0

\* Mutant: the interface's own deliver, which is the adaptor again.
deliver_as_raw_call_deliver(f) ==
    OpFrame(ops[f.xfer].deliver, f.xfer, 0, <<>>, f.iobuf, <<>>, 0)

\* Mutant: the deliver_raw of the destination instead of the interface's own.
deliver_as_raw_call_dest(f) ==
    OpFrame(ops[xfer_dest(f.xfer)].deliver_raw, xfer_dest(f.xfer), 0, <<>>, NoIob,
            iob[f.iobuf].bytes, iob_len(f.iobuf))

\* deliver_as_raw(): xfer->op->deliver_raw ( xfer, iobuf->data, iob_len ( iobuf ) )
deliver_as_raw_call(f) ==
    OpFrame(ops[f.xfer].deliver_raw, f.xfer, 0, <<>>, NoIob,
            iob[f.iobuf].bytes, iob_len(f.iobuf))

\* Mutant: the buffer is not freed.
deliver_as_raw_leak(f) == iob

\* deliver_as_raw(): free_iob ( iobuf ) after the call
deliver_as_raw_free(f) == free_iob(f.iobuf)

\* Mutant: the errno value without its sign.
deliver_as_iobuf_nomem_unsigned == ENOMEM

\* deliver_as_iobuf(): the status returned when alloc_iob() fails.
deliver_as_iobuf_nomem == -ENOMEM

\* Mutant: the whole region is copied, not len bytes of it.
deliver_as_iobuf_copy_all(data, len) == LiveIob(len, data)

\* deliver_as_iobuf(): iobuf = alloc_iob ( len );
\* memcpy ( iob_put ( iobuf, len ), data, len )
deliver_as_iobuf_copy(data, len) == LiveIob(len, SubSeq(data, 1, len))

\* deliver_as_iobuf(): xfer->op->deliver ( xfer, iobuf )
deliver_as_iobuf_call(f, id) ==
    OpFrame(ops[f.xfer].deliver, f.xfer, 0, <<>>, id, <<>>, 0)

(* ------------------------------------------------------- the call stack --- *)

Front(s) == SubSeq(s, 1, Len(s) - 1)

\* A caller: the code outside this file, either at top level or inside an
\* endpoint's own operation.
CanCall == IF stack = <<>> THEN TRUE ELSE Top.fn \in NativeOps /\ Top.pc = "run"

\* Helper methods that call a further operation.
Adaptors == {"deliver_as_raw", "deliver_as_iobuf"}

Room(frames) ==
    Len(stack) + Len(frames)
      + (IF frames[Len(frames)].fn \in Adaptors THEN 1 ELSE 0) <= MaxDepth

\* Enter a call: the running frame (if any) waits, the call's frames go on top.
Enter(top, frames) ==
    stack' = (IF stack = <<>> THEN <<>> ELSE Append(Front(stack), [top EXCEPT !.pc = "wait"]))
             \o frames

\* Return rc from the innermost frame to the frame below.
Return(rc) ==
    /\ ret' = [fn |-> Top.fn, xfer |-> Top.xfer, rc |-> rc]
    /\ stack' = IF Len(stack) = 1 THEN <<>>
                ELSE LET below == stack[Len(stack) - 1] IN
                     Append(SubSeq(stack, 1, Len(stack) - 2),
                            [below EXCEPT !.pc = IF below.fn \in NativeOps
                                                 THEN "run" ELSE "resume"])

Running(fn, pc) == IF stack = <<>> THEN FALSE ELSE Top.fn = fn /\ Top.pc = pc

(* ----------------------------------------------- calls from the callers --- *)
(* A caller is the environment of this file: pipeline code at top level,   *)
(* or an endpoint's own operation while it runs.  It may call any dispatch *)
(* function, plug or unplug an interface, and dispose of buffers it owns.  *)

CallClose ==
    \E h \in Handles, rc \in Reasons :
        /\ CanCall /\ Room(close(h, rc))
        /\ Enter(Top, close(h, rc))
        /\ ret' = NoRet
        /\ UNCHANGED <<dest, refcnt, ops, iob, kept>>

CallSeek ==
    \E h \in User, pos \in Positions :
        /\ CanCall /\ Room(seek(h, pos))
        /\ Enter(Top, seek(h, pos))
        /\ ret' = NoRet
        /\ UNCHANGED <<dest, refcnt, ops, iob, kept>>

CallVredirect ==
    \E h \in User, loc \in Locations :
        /\ CanCall /\ Room(vredirect(h, loc.type, loc.args))
        /\ Enter(Top, vredirect(h, loc.type, loc.args))
        /\ ret' = NoRet
        /\ UNCHANGED <<dest, refcnt, ops, iob, kept>>

CallRedirect ==
    \E h \in User, loc \in Locations :
        /\ CanCall /\ Room(redirect(h, loc.type, loc.args))
        /\ Enter(Top, redirect(h, loc.type, loc.args))
        /\ ret' = NoRet
        /\ UNCHANGED <<dest, refcnt, ops, iob, kept>>

\* The caller allocates and fills a buffer of its own and delivers it.
CallDeliver ==
    \E h \in User, in \in RawInputs :
        /\ CanCall /\ CanAlloc /\ Room(deliver(h, AllocId))
        /\ iob' = [iob EXCEPT ![AllocId] = LiveIob(in.len, SubSeq(in.data, 1, in.len))]
        /\ Enter(Top, deliver(h, AllocId))
        /\ ret' = NoRet
        /\ UNCHANGED <<dest, refcnt, ops, kept>>

\* An endpoint's deliver operation passes the buffer it was given on.
CallForward ==
    \E h \in User :
        /\ Running("native_deliver", "run") /\ Top.iobuf # NoIob
        /\ Room(deliver(h, Top.iobuf))
        /\ Enter([Top EXCEPT !.iobuf = NoIob], deliver(h, Top.iobuf))
        /\ ret' = NoRet
        /\ UNCHANGED <<dest, refcnt, ops, iob, kept>>

CallDeliverRaw ==
    \E h \in User, in \in RawInputs :
        /\ CanCall /\ Room(deliver_raw(h, in.data, in.len))
        /\ Enter(Top, deliver_raw(h, in.data, in.len))
        /\ ret' = NoRet
        /\ UNCHANGED <<dest, refcnt, ops, iob, kept>>

\* plug ( &xfer->intf, &new->intf ), by pipeline-assembly code.
CallPlug ==
    \E h \in User : \E new \in User \ {h} :
        /\ CanCall
        /\ dest' = plug(dest, refcnt, h, new).dest
        /\ refcnt' = plug(dest, refcnt, h, new).refcnt
        /\ ret' = NoRet
        /\ UNCHANGED <<ops, stack, iob, kept>>

\* xfer_unplug ( xfer ), called directly.
CallUnplug ==
    \E h \in Handles :
        /\ CanCall
        /\ dest' = xfer_unplug(dest, refcnt, h).dest
        /\ refcnt' = xfer_unplug(dest, refcnt, h).refcnt
        /\ ret' = NoRet
        /\ UNCHANGED <<ops, stack, iob, kept>>

(* ------------------------------------------ endpoints' own operations --- *)

\* An endpoint's deliver operation owns the buffer: it frees it ...
NativeFree ==
    /\ Running("native_deliver", "run") /\ Top.iobuf # NoIob
    /\ iob' = free_iob(Top.iobuf)
    /\ stack' = Append(Front(stack), [Top EXCEPT !.iobuf = NoIob])
    /\ ret' = NoRet
    /\ UNCHANGED <<dest, refcnt, ops, kept>>

\* ... or keeps it for later ...
NativeKeep ==
    /\ Running("native_deliver", "run") /\ Top.iobuf # NoIob
    /\ Cardinality(kept) < MaxKept
    /\ kept' = kept \cup {Top.iobuf}
    /\ stack' = Append(Front(stack), [Top EXCEPT !.iobuf = NoIob])
    /\ ret' = NoRet
    /\ UNCHANGED <<dest, refcnt, ops, iob>>

\* ... and frees a kept buffer when it is done with it.
QueueFree ==
    \E id \in kept :
        /\ CanCall
        /\ kept' = kept \ {id}
        /\ iob' = free_iob(id)
        /\ ret' = NoRet
        /\ UNCHANGED <<dest, refcnt, ops, stack>>

\* An endpoint's operation returns a status of its choice (close returns none).
NativeReturn ==
    \E rc \in Status :
        /\ stack # <<>> /\ Top.fn \in NativeOps /\ Top.pc = "run"
        /\ Top.iobuf = NoIob
        /\ Top.fn = "native_close" => rc = 0
        /\ Return(rc)
        /\ UNCHANGED <<dest, refcnt, ops, iob, kept>>

(* ----------------------------------------- dispatch layer, after the call --- *)

\* close(): xfer_unplug ( xfer ) once dest->op->close() has returned.
CloseRet ==
    /\ Running("close", "resume")
    /\ dest' = close_unplug(Top).dest
    /\ refcnt' = close_unplug(Top).refcnt
    /\ Return(0)
    /\ UNCHANGED <<ops, iob, kept>>

\* seek(): return the operation's status.
SeekRet ==
    /\ Running("seek", "resume")
    /\ Return(ret.rc)
    /\ UNCHANGED <<dest, refcnt, ops, iob, kept>>

\* vredirect(): return the operation's status.
VredirectRet ==
    /\ Running("vredirect", "resume")
    /\ Return(ret.rc)
    /\ UNCHANGED <<dest, refcnt, ops, iob, kept>>

\* redirect(): va_end ( args ); return rc.
RedirectRet ==
    /\ Running("redirect", "resume")
    /\ Return(ret.rc)
    /\ UNCHANGED <<dest, refcnt, ops, iob, kept>>

\* deliver(): return the operation's status.
DeliverRet ==
    /\ Running("deliver", "resume")
    /\ Return(ret.rc)
    /\ UNCHANGED <<dest, refcnt, ops, iob, kept>>

\* deliver_raw(): return the operation's status.
DeliverRawRet ==
    /\ Running("deliver_raw", "resume")
    /\ Return(ret.rc)
    /\ UNCHANGED <<dest, refcnt, ops, iob, kept>>

(* -------------------------------------------------------- helper methods --- *)

\* void ignore_close(): nothing to do.
IgnoreClose ==
    /\ Running("ignore_close", "run")
    /\ Return(0)
    /\ UNCHANGED <<dest, refcnt, ops, iob, kept>>

\* int ignore_vredirect(): return 0.
IgnoreVredirect ==
    /\ Running("ignore_vredirect", "run")
    /\ Return(ignore_vredirect)
    /\ UNCHANGED <<dest, refcnt, ops, iob, kept>>

\* int ignore_seek(): return 0.
IgnoreSeek ==
    /\ Running("ignore_seek", "run")
    /\ Return(ignore_seek)
    /\ UNCHANGED <<dest, refcnt, ops, iob, kept>>

\* int ignore_deliver_raw(): a debug message, return 0.
IgnoreDeliverRaw ==
    /\ Running("ignore_deliver_raw", "run")
    /\ Return(ignore_deliver_raw)
    /\ UNCHANGED <<dest, refcnt, ops, iob, kept>>

\* deliver_as_raw(): call the interface's own deliver_raw ...
DeliverAsRawCall ==
    /\ Running("deliver_as_raw", "run")
    /\ Enter(Top, <<deliver_as_raw_call(Top)>>)
    /\ ret' = NoRet
    /\ UNCHANGED <<dest, refcnt, ops, iob, kept>>

\* ... then free the buffer and return the status.
DeliverAsRawRet ==
    /\ Running("deliver_as_raw", "resume")
    /\ iob' = deliver_as_raw_free(Top)
    /\ Return(ret.rc)
    /\ UNCHANGED <<dest, refcnt, ops, kept>>

\* deliver_as_iobuf(): alloc_iob() fails: return -ENOMEM.
DeliverAsIobufNoMem ==
    /\ Running("deliver_as_iobuf", "run")
    /\ Return(deliver_as_iobuf_nomem)
    /\ UNCHANGED <<dest, refcnt, ops, iob, kept>>

\* deliver_as_iobuf(): allocate, copy, call the interface's own deliver ...
DeliverAsIobufCall ==
    /\ Running("deliver_as_iobuf", "run")
    /\ CanAlloc
    /\ iob' = [iob EXCEPT ![AllocId] = deliver_as_iobuf_copy(Top.data, Top.len)]
    /\ Enter([Top EXCEPT !.iobuf = AllocId], <<deliver_as_iobuf_call(Top, AllocId)>>)
    /\ ret' = NoRet
    /\ UNCHANGED <<dest, refcnt, ops, kept>>

\* ... and return its status.
DeliverAsIobufRet ==
    /\ Running("deliver_as_iobuf", "resume")
    /\ Return(ret.rc)
    /\ UNCHANGED <<dest, refcnt, ops, iob, kept>>

Next ==
    \/ CallClose \/ CallSeek \/ CallVredirect \/ CallRedirect
    \/ CallDeliver \/ CallForward \/ CallDeliverRaw \/ CallPlug \/ CallUnplug
    \/ NativeFree \/ NativeKeep \/ QueueFree \/ NativeReturn
    \/ CloseRet \/ SeekRet \/ VredirectRet \/ RedirectRet
    \/ DeliverRet \/ DeliverRawRet
    \/ IgnoreClose \/ IgnoreVredirect \/ IgnoreSeek \/ IgnoreDeliverRaw
    \/ DeliverAsRawCall \/ DeliverAsRawRet
    \/ DeliverAsIobufNoMem \/ DeliverAsIobufCall \/ DeliverAsIobufRet

Spec == Init /\ [][Next]_vars

(* ------------------------------------- endpoints that close when closed --- *)
(* A and B are plugged into each other, and the close operation of each    *)
(* endpoint reacts to being closed by closing the endpoint's own           *)
(* interface: "close_own" does so every time, "close_own_once" unless a    *)
(* close of that interface is already under way.  The call stack holds     *)
(* MaxReact frames.                                                        *)

MaxReact == 16

CloseOps == {"close_own", "close_own_once"}

ReactOps(a, b) ==
    [h \in Handles |-> IF h = "A" THEN [raw_stage_ops EXCEPT !.close = a]
                       ELSE IF h = "B" THEN [iobuf_stage_ops EXCEPT !.close = b]
                       ELSE null_xfer_ops]

InitReact ==
    /\ dest = [h \in Handles |-> IF h = "A" THEN "B" ELSE IF h = "B" THEN "A" ELSE Null]
    /\ refcnt = [h \in Handles |-> IF h = Null THEN 0 ELSE 1]
    /\ ops \in {ReactOps(a, b) : a \in CloseOps, b \in CloseOps}
    /\ stack = <<>>
    /\ iob = [i \in IobIds |-> FreeIob]
    /\ kept = {}
    /\ ret = NoRet

\* A close of interface h is under way.
Closing(h) == \E i \in 1 .. Len(stack) : stack[i].fn = "close" /\ stack[i].xfer = h

\* The pipeline closes an interface.
ReactCallClose ==
    \E h \in User, rc \in Reasons :
        /\ stack = <<>>
        /\ Enter(Top, close(h, rc))
        /\ ret' = NoRet
        /\ UNCHANGED <<dest, refcnt, ops, iob, kept>>

\* The close operation closes the endpoint's own interface ...
CloseOwn ==
    /\ Running("close_own", "run")
    /\ Len(stack) + 2 <= MaxReact
    /\ Enter(Top, close(Top.xfer, Top.val))
    /\ ret' = NoRet
    /\ UNCHANGED <<dest, refcnt, ops, iob, kept>>

\* ... or does so unless that interface is already being closed ...
CloseOwnOnce ==
    /\ Running("close_own_once", "run")
    /\ ~Closing(Top.xfer)
    /\ Enter(Top, close(Top.xfer, Top.val))
    /\ ret' = NoRet
    /\ UNCHANGED <<dest, refcnt, ops, iob, kept>>

CloseOwnSkip ==
    /\ Running("close_own_once", "run")
    /\ Closing(Top.xfer)
    /\ Return(0)
    /\ UNCHANGED <<dest, refcnt, ops, iob, kept>>

\* ... and returns when that close has returned.
CloseOwnRet ==
    /\ stack # <<>> /\ Top.fn \in CloseOps /\ Top.pc = "resume"
    /\ Return(0)
    /\ UNCHANGED <<dest, refcnt, ops, iob, kept>>

NextReact ==
    \/ ReactCallClose \/ CloseOwn \/ CloseOwnOnce \/ CloseOwnSkip \/ CloseOwnRet
    \/ CloseRet \/ IgnoreClose

SpecReact == InitReact /\ [][NextReact]_vars

(* ================================================================ claims === *)

DispatchFns == {"close", "seek", "vredirect", "deliver", "deliver_raw"}

Frames == 1 .. Len(stack)

\* Frame i is a dispatch function waiting for the operation it invoked.
Waiting(i) == stack[i].fn \in DispatchFns /\ stack[i].pc = "wait"

\* The frame above i is the operation named like i's function in the table of
\* handle e, called with e as its handle and with i's arguments.
InvokedOn(i, e) ==
    /\ i < Len(stack)
    /\ stack[i + 1].fn = ops[e][stack[i].fn]
    /\ stack[i + 1].xfer = e
    /\ stack[i + 1].val = stack[i].val
    /\ stack[i + 1].args = stack[i].args
    /\ stack[i + 1].data = stack[i].data
    /\ stack[i + 1].len = stack[i].len

\* redirect() at frame i has called vredirect() on the same interface.
RedirectCalls(i) ==
    /\ i < Len(stack)
    /\ stack[i + 1].fn = "vredirect"
    /\ stack[i + 1].xfer = stack[i].xfer
    /\ stack[i + 1].entry = stack[i].entry

C1_Inv ==
    \A i \in Frames :
        /\ Waiting(i) => InvokedOn(i, stack[i].entry)
        /\ (Waiting(i) /\ stack[i].entry # stack[i].xfer) =>
               stack[i + 1].xfer # stack[i].xfer
        /\ (stack[i].fn = "redirect" /\ stack[i].pc = "wait") => RedirectCalls(i)

\* Once the operation has returned, a dispatch function invokes nothing more:
\* its next step is its own return.
C1_Once ==
    (stack # <<>> /\ Top.fn \in DispatchFns \cup {"redirect"} /\ Top.pc = "resume")
        => Len(stack') = Len(stack) - 1

\* C1 (as amended): every dispatch call (close, seek, vredirect/redirect,
\* deliver, deliver_raw) on a handle H invokes exactly one operations-table
\* entry: the same-named entry of the table of the partner H had at call
\* entry, with that partner as the handle argument.  The partner differs from
\* H unless H is its own partner, as the null interface is.
C1_DispatchOnPartner == [](C1_Inv) /\ [][C1_Once]_vars

\* C1 witness: seek on A, plugged into B, has invoked B's seek operation.
C1_Witness ==
    /\ Len(stack) = 2
    /\ stack[1].fn = "seek" /\ stack[1].xfer = "A" /\ stack[1].entry = "B"
    /\ stack[2].fn = "native_seek" /\ stack[2].xfer = "B"

\* C1 as stated: the operation is never invoked on H itself.
C1_NeverOnSelf ==
    \A i \in Frames :
        Waiting(i) => (InvokedOn(i, stack[i].entry) /\ stack[i + 1].xfer # stack[i].xfer)

\* C2: in the state close ( H, rc ) returns to, H's destination is the null
\* interface, whatever the peer's close operation did meanwhile.
C2_ClosedIsUnplugged == ret.fn = "close" => dest[ret.xfer] = Null

\* C2 witness: the close operation of A's peer B closed A again; that nested
\* close has just returned into B's operation, the outer close still waiting.
C2_Witness ==
    /\ Len(stack) = 2
    /\ stack[1].fn = "close" /\ stack[1].xfer = "A" /\ stack[1].entry = "B"
    /\ stack[2].fn = "native_close" /\ stack[2].pc = "run"
    /\ ret.fn = "close" /\ ret.xfer = "A"

\* The parties holding buffer id: the frames of operations that were handed
\* the buffer and have not yet passed it on or freed it, and the endpoints'
\* store of kept buffers (0).
Holders(id) ==
    {i \in Frames : /\ stack[i].iobuf = id
                    /\ stack[i].fn \in {"deliver_as_raw", "native_deliver"}}
      \cup (IF id \in kept THEN {0} ELSE {})

C3_Inv ==
    \A id \in IobIds :
        IF iob[id].live THEN Cardinality(Holders(id)) = 1 ELSE Holders(id) = {}

C3_DeliverStep ==
    (stack # <<>> /\ Top.fn = "deliver") => (iob' = iob /\ kept' = kept)

\* C3: a buffer handed to deliver belongs to the partner's operation from then
\* on: every live buffer has exactly one holder, a freed buffer has none (so
\* none is freed twice or leaked), on success and on failure, and deliver
\* itself neither frees nor keeps a buffer.
C3_BufferOwnership == [](C3_Inv) /\ [][C3_DeliverStep]_vars

\* C3 witness: deliver is about to return a failure status, and the buffer it
\* was given has been freed by the operation it was handed to.
C3_Witness ==
    /\ Running("deliver", "resume")
    /\ ret.rc # 0
    /\ ret.fn = "deliver_as_raw"
    /\ ~iob[Top.iobuf].live

C4_Inv ==
    \A i \in Frames :
        stack[i].fn = "deliver_as_raw" =>
            /\ iob[stack[i].iobuf].live
            /\ stack[i].pc = "wait" =>
                /\ i < Len(stack)
                /\ stack[i + 1].fn = ops[stack[i].xfer].deliver_raw
                /\ stack[i + 1].xfer = stack[i].xfer
                /\ stack[i + 1].data = iob[stack[i].iobuf].bytes
                /\ stack[i + 1].len = Len(iob[stack[i].iobuf].bytes)
            /\ (stack[i].pc = "resume" /\ i = Len(stack)) =>
                /\ ret.fn = ops[stack[i].xfer].deliver_raw
                /\ ret.xfer = stack[i].xfer

C4_Step ==
    /\ Running("deliver_as_raw", "run") =>
        /\ iob' = iob
        /\ Len(stack') = Len(stack) + 1
    /\ Running("deliver_as_raw", "resume") =>
        /\ Len(stack') = Len(stack) - 1
        /\ iob' = [iob EXCEPT ![Top.iobuf] = FreeIob]
        /\ ret' = [fn |-> "deliver_as_raw", xfer |-> Top.xfer, rc |-> ret.rc]

\* C4: deliver_as_raw ( H, buf ) calls H's own deliver_raw once, with buf's
\* bytes and length; buf stays allocated until that call returns and is then
\* freed once, whatever the status, and the status is returned unchanged.
C4_DeliverAsRaw == [](C4_Inv) /\ [][C4_Step]_vars

\* C4 witness: A's own deliver_raw has failed and deliver_as_raw is about to
\* free the buffer.
C4_Witness ==
    /\ Running("deliver_as_raw", "resume")
    /\ Top.xfer = "A"
    /\ dest["A"] # "A"
    /\ ret.rc # 0

C5_Fails == Running("deliver_as_iobuf", "run") /\ Len(stack') < Len(stack)

C5_Step ==
    /\ C5_Fails =>
        /\ ret' = [fn |-> "deliver_as_iobuf", xfer |-> Top.xfer, rc |-> -ENOMEM]
        /\ UNCHANGED <<iob, kept, dest, refcnt>>
        /\ \A i \in 1 .. Len(stack') :
               stack'[i].data = stack[i].data /\ stack'[i].len = stack[i].len
    /\ (Running("deliver_raw", "resume") /\ ret.fn = "deliver_as_iobuf") =>
        /\ ret' = [fn |-> "deliver_raw", xfer |-> Top.xfer, rc |-> ret.rc]
        /\ UNCHANGED <<iob, kept, dest, refcnt>>

\* C5: when alloc_iob() fails, deliver_as_iobuf returns -ENOMEM without
\* invoking deliver; no buffer comes to exist, the raw data of the callers and
\* every interface's destination are as before, and a deliver_raw() that
\* reached deliver_as_iobuf returns that status to its caller.
C5_AllocFailure == [][C5_Step]_vars

\* C5 witness: deliver_raw on A, plugged into B, has returned -ENOMEM to the
\* top-level caller.
C5_Witness ==
    /\ stack = <<>>
    /\ ret = [fn |-> "deliver_raw", xfer |-> "A", rc |-> -ENOMEM]
    /\ dest["A"] = "B"

C6_Inv ==
    \A i \in Frames :
        stack[i].fn = "deliver_as_iobuf" =>
            /\ stack[i].pc = "wait" =>
                /\ i < Len(stack)
                /\ stack[i + 1].fn = ops[stack[i].xfer].deliver
                /\ stack[i + 1].xfer = stack[i].xfer
                /\ stack[i + 1].iobuf \in {stack[i].iobuf, NoIob}
                /\ stack[i + 1].iobuf = stack[i].iobuf =>
                       iob[stack[i].iobuf] =
                           LiveIob(stack[i].len, SubSeq(stack[i].data, 1, stack[i].len))
            /\ (stack[i].pc = "resume" /\ i = Len(stack)) =>
                /\ ret.fn = ops[stack[i].xfer].deliver
                /\ ret.xfer = stack[i].xfer

C6_Step ==
    /\ (Running("deliver_as_iobuf", "run") /\ ~C5_Fails) =>
        /\ Len(stack') = Len(stack) + 1
        /\ LET id == stack'[Len(stack')].iobuf IN
             /\ id \in IobIds
             /\ ~iob[id].live
             /\ iob'[id].live
             /\ \A j \in IobIds \ {id} : iob'[j] = iob[j]
    /\ Running("deliver_as_iobuf", "resume") =>
        /\ Len(stack') = Len(stack) - 1
        /\ iob' = iob
        /\ ret' = [fn |-> "deliver_as_iobuf", xfer |-> Top.xfer, rc |-> ret.rc]

\* C6: when alloc_iob() succeeds, deliver_as_iobuf ( H, data, len ) calls H's
\* own deliver once with a newly allocated buffer of length len holding
\* data[0..len), which that call then owns, and returns its status.
C6_DeliverAsIobuf == [](C6_Inv) /\ [][C6_Step]_vars

\* C6 witness: B's deliver holds the buffer deliver_as_iobuf made from one
\* byte of a two-byte region.
C6_Witness ==
    /\ Len(stack) >= 2
    /\ Top.fn = "native_deliver" /\ Top.pc = "run" /\ Top.iobuf # NoIob
    /\ stack[Len(stack) - 1].fn = "deliver_as_iobuf"
    /\ stack[Len(stack) - 1].data = <<1, 0>>
    /\ stack[Len(stack) - 1].len = 1
    /\ iob[Top.iobuf].bytes = <<1>>

IgnoreOps == {"ignore_close", "ignore_vredirect", "ignore_seek", "ignore_deliver_raw"}

\* The stack below the innermost frame is as it was, the frame that now runs
\* apart from its state of execution.
Popped ==
    /\ Len(stack') = Len(stack) - 1
    /\ \A i \in 1 .. Len(stack') :
           stack'[i] = stack[i] \/ (i = Len(stack') /\ stack'[i] = [stack[i] EXCEPT !.pc = stack'[i].pc])

C7_Inv ==
    \A i \in Frames :
        (stack[i].xfer = Null /\ stack[i].fn \notin DispatchFns \cup {"redirect"}) =>
            /\ stack[i].fn \in IgnoreOps \cup {"deliver_as_raw"}
            /\ (i > 1 /\ stack[i - 1].fn \in DispatchFns \ {"deliver"}) =>
                   stack[i].fn \in IgnoreOps
            /\ (i > 1 /\ stack[i - 1].fn = "deliver") => stack[i].fn = "deliver_as_raw"
            /\ (stack[i].fn = "deliver_as_raw" /\ stack[i].pc = "wait") =>
                   (i + 1 = Len(stack) /\ stack[i + 1].fn = "ignore_deliver_raw")

C7_Step ==
    (stack # <<>> /\ Top.xfer = Null) =>
        /\ Top.fn \in IgnoreOps =>
            /\ UNCHANGED <<dest, refcnt, ops, iob, kept>>
            /\ Popped
            /\ ret' = [fn |-> Top.fn, xfer |-> Null, rc |-> 0]
        /\ (Top.fn = "deliver_as_raw" /\ Top.pc = "run") =>
            UNCHANGED <<dest, refcnt, ops, iob, kept>>
        /\ (Top.fn = "deliver_as_raw" /\ Top.pc = "resume") =>
            /\ UNCHANGED <<dest, refcnt, ops, kept>>
            /\ Popped
            /\ iob[Top.iobuf].live
            /\ iob' = [iob EXCEPT ![Top.iobuf] = FreeIob]
            /\ ret' = [fn |-> "deliver_as_raw", xfer |-> Null, rc |-> 0]

\* C7: the null interface absorbs everything: its close does nothing, its
\* seek, vredirect and deliver_raw return 0 and change nothing, and its
\* deliver (deliver_as_raw) frees the buffer once and returns 0.
C7_NullAbsorbs == [](C7_Inv) /\ [][C7_Step]_vars

\* C7 witness: a buffer delivered through an unplugged interface is about to be
\* freed by the null interface's deliver.
C7_Witness ==
    /\ Running("deliver_as_raw", "resume")
    /\ Top.xfer = Null
    /\ iob[Top.iobuf].live
    /\ stack[Len(stack) - 1].fn = "deliver"
    /\ stack[Len(stack) - 1].xfer \in User

\* Frame i is a dispatch call on an interface that was plugged into a peer at
\* entry and has been unplugged since.
UnpluggedInFlight(i) ==
    /\ stack[i].fn \in DispatchFns
    /\ stack[i].entry # Null
    /\ dest[stack[i].xfer] = Null

C8_Inv ==
    \A i \in Frames :
        UnpluggedInFlight(i) =>
            /\ stack[i].pc = "wait" =>
                /\ stack[i + 1].xfer = stack[i].entry
                /\ stack[i + 1].fn = ops[stack[i].entry][stack[i].fn]
            /\ (stack[i].pc = "resume" /\ i = Len(stack)) =>
                /\ ret.xfer = stack[i].entry
                /\ ret.fn = ops[stack[i].entry][stack[i].fn]

C8_Step ==
    /\ (stack # <<>> /\ Top.pc = "resume" /\ UnpluggedInFlight(Len(stack))) =>
        /\ Popped
        /\ ret' = [fn |-> Top.fn, xfer |-> Top.xfer,
                   rc |-> IF Top.fn = "close" THEN 0 ELSE ret.rc]
    /\ \A j \in Len(stack) + 1 .. Len(stack') - 1 :
        (stack'[j].fn \in DispatchFns /\ dest[stack'[j].xfer] = Null) =>
            /\ stack'[j + 1].xfer = Null
            /\ stack'[j + 1].fn \in IgnoreOps \cup {"deliver_as_raw"}

\* C8: when the partner's operation unplugs H during a dispatch call on H, the
\* call in flight still runs the operation of the peer resolved at entry and
\* returns that operation's status; dispatch calls on H started after the
\* unplug invoke the null interface's operations.
C8_InFlightKeepsPeer == [](C8_Inv) /\ [][C8_Step]_vars

\* C8 witness: deliver on A is in flight to B, B's operation has unplugged A and
\* then called seek on A, which reached the null interface.
C8_Witness ==
    /\ Len(stack) = 4
    /\ stack[1].fn = "deliver" /\ stack[1].xfer = "A" /\ stack[1].entry = "B"
    /\ stack[2].fn = "native_deliver" /\ stack[2].xfer = "B"
    /\ stack[3].fn = "seek" /\ stack[3].xfer = "A" /\ stack[3].entry = Null
    /\ stack[4].fn = "ignore_seek" /\ stack[4].xfer = Null
    /\ dest["A"] = Null

\* C9: xfer_unplug ( H ) twice in succession: H's destination is the null
\* interface after each call, the second call changes nothing, and in total
\* the previous destination's reference count went down by exactly one.
C9_UnplugIdempotent ==
    \A h \in Handles :
        LET s1 == xfer_unplug(dest, refcnt, h)
            s2 == xfer_unplug(s1.dest, s1.refcnt, h)
        IN  /\ s1.dest[h] = Null
            /\ s2.dest[h] = Null
            /\ s2 = s1
            /\ \A u \in Handles :
                   s2.refcnt[u] = refcnt[u] - (IF dest[h] = u /\ u # Null THEN 1 ELSE 0)

\* C9 witness: A is plugged into B, which is counted once; unplugging A drops
\* the count to zero.
C9_Witness ==
    /\ dest["A"] = "B"
    /\ refcnt["B"] = 1
    /\ xfer_unplug(dest, refcnt, "A").refcnt["B"] = 0

\* Frame i is a close of an interface that was already unplugged at entry.
ClosingUnplugged(i) == stack[i].fn = "close" /\ stack[i].entry = Null

C10_Inv ==
    \A i \in Frames :
        ClosingUnplugged(i) =>
            /\ dest[stack[i].xfer] = Null
            /\ stack[i].pc = "wait" =>
                /\ i + 1 = Len(stack)
                /\ stack[i + 1].fn = "ignore_close"
                /\ stack[i + 1].xfer = Null

C10_Step ==
    /\ (/\ Len(stack') = Len(stack) + 2
        /\ stack'[Len(stack) + 1].fn = "close"
        /\ stack'[Len(stack) + 1].entry = Null) =>
        UNCHANGED <<dest, refcnt, ops, iob, kept>>
    /\ (Len(stack) >= 2 /\ ClosingUnplugged(Len(stack) - 1)) =>
        (UNCHANGED <<dest, refcnt, ops, iob, kept>> /\ Popped)
    /\ (stack # <<>> /\ ClosingUnplugged(Len(stack))) =>
        (UNCHANGED <<dest, refcnt, ops, iob, kept>> /\ Popped)

\* C10: close ( H, rc ) on an interface whose destination is already the null
\* interface invokes only the null interface's ignore_close, changes no
\* reference count and leaves H plugged into the null interface, however often
\* it is repeated.
C10_CloseUnpluggedNoOp == [](C10_Inv) /\ [][C10_Step]_vars

\* C10 witness: close on the unplugged A is about to return while B is still
\* plugged into A.
C10_Witness ==
    /\ Len(stack) = 1
    /\ Running("close", "resume")
    /\ Top.xfer = "A" /\ Top.entry = Null
    /\ dest["B"] = "A" /\ refcnt["A"] = 1

\* The operations of the null interface.
NullOps == IgnoreOps \cup {"deliver_as_raw"}

\* Frame i is a dispatch call on an interface that was unplugged at entry.
EntryNull(i) ==
    stack[i].fn \in DispatchFns \cup {"redirect"} /\ stack[i].entry = Null

C11_Inv ==
    \A i \in Frames :
        EntryNull(i) =>
            /\ dest[stack[i].xfer] = Null
            /\ \A j \in i + 1 .. Len(stack) :
                   /\ stack[j].fn \notin NativeOps
                   /\ stack[j].fn \in NullOps => stack[j].xfer = Null
                   /\ stack[j].fn \in NullOps \cup {"vredirect"}
            /\ (stack[i].pc = "wait" /\ stack[i].fn # "redirect") =>
                   stack[i + 1].fn = null_xfer_ops[stack[i].fn]
            /\ (stack[i].pc = "resume" /\ i = Len(stack)) => ret.rc = 0

C11_Step ==
    /\ (stack # <<>> /\ EntryNull(Len(stack)) /\ Top.pc = "resume") =>
        /\ Popped
        /\ ret' = [fn |-> Top.fn, xfer |-> Top.xfer, rc |-> 0]
        /\ UNCHANGED <<dest, refcnt>>
    /\ \A h \in Handles :
        (dest[h] = Null /\ dest'[h] # Null) => (stack' = stack /\ CanCall)

\* C11: unconnected is absorbing: while H's destination is the null interface
\* it stays so until a caller plugs H, and every dispatch call on H (close,
\* seek, redirect, deliver, deliver_raw) runs only operations of the null
\* interface and returns 0 where it returns a status.
C11_UnconnectedAbsorbs == [](C11_Inv) /\ [][C11_Step]_vars

\* C11 witness: redirect on the unplugged A is about to return the 0 that
\* vredirect got from the null interface.
C11_Witness ==
    /\ Len(stack) = 1
    /\ Running("redirect", "resume")
    /\ Top.xfer = "A" /\ Top.entry = Null
    /\ ret = [fn |-> "vredirect", xfer |-> "A", rc |-> 0]

\* C12: every interface's destination is an interface, never unset; the null
\* interface's destination is itself and it has no reference counter, so
\* nothing is ever counted on it; close or unplug of the null interface itself
\* changes neither.
C12_PartnerAlwaysSet ==
    /\ \A h \in Handles : dest[h] \in Handles
    /\ dest[Null] = Null
    /\ ~has_refcnt(Null)
    /\ refcnt[Null] = 0

\* C12 witness: close on the null interface itself has returned while A is
\* plugged into B.
C12_Witness ==
    /\ stack = <<>>
    /\ ret = [fn |-> "close", xfer |-> Null, rc |-> 0]
    /\ dest["A"] = "B"

C13_Inv ==
    \A i \in Frames :
        (stack[i].fn = "close" /\ stack[i].pc = "wait") =>
            /\ stack[i + 1].fn = ops[stack[i].entry].close
            /\ stack[i + 1].xfer = stack[i].entry
            /\ stack[i + 1].val = stack[i].val

C13_Step ==
    /\ (Len(stack') = Len(stack) + 2 /\ stack'[Len(stack) + 1].fn = "close") =>
        UNCHANGED <<dest, refcnt>>
    /\ (stack # <<>> /\ Top.fn = "close") =>
        /\ Popped
        /\ dest'[Top.xfer] = Null
        /\ \A h \in Handles \ {Top.xfer} : dest'[h] = dest[h]
        /\ refcnt' = intf_put(refcnt, dest[Top.xfer])

\* C13: close ( A, rc ) on a connected A calls the close operation of its
\* peer B once, on B and with the same rc, and of all destinations changes
\* only A's: B's destination is what B's operation left it, still A if the
\* operation did not touch it, so dispatch on B keeps reaching A.
C13_CloseChangesOnlyOwnDest == [](C13_Inv) /\ [][C13_Step]_vars

\* C13 witness: A and B are plugged into each other, B's close operation has
\* returned into close ( A, -1 ), which is about to unplug A alone.
C13_Witness ==
    /\ Len(stack) = 1
    /\ Running("close", "resume")
    /\ Top.xfer = "A" /\ Top.entry = "B" /\ Top.val = -1
    /\ ret.fn = "native_close" /\ ret.xfer = "B"
    /\ dest["A"] = "B" /\ dest["B"] = "A"

\* The dispatch functions that only pass a call on.
Forwarders == {"seek", "vredirect", "deliver", "deliver_raw"}

C14_Inv ==
    \A i \in Frames :
        /\ (stack[i].fn \in Forwarders /\ stack[i].pc = "wait") =>
            /\ stack[i + 1].fn = ops[stack[i].entry][stack[i].fn]
            /\ stack[i + 1].val = stack[i].val
            /\ stack[i + 1].args = stack[i].args
            /\ stack[i + 1].data = stack[i].data
            /\ stack[i + 1].len = stack[i].len
        /\ (stack[i].fn = "redirect" /\ stack[i].pc = "wait") =>
            /\ stack[i + 1].fn = "vredirect"
            /\ stack[i + 1].xfer = stack[i].xfer
            /\ stack[i + 1].val = stack[i].val
            /\ stack[i + 1].args = stack[i].args

C14_Step ==
    /\ (Len(stack') > Len(stack) /\ stack'[Len(stack) + 1].fn \in Forwarders \cup {"redirect"}) =>
        /\ UNCHANGED <<dest, refcnt>>
        /\ \A j \in Len(stack) + 1 .. Len(stack') - 1 :
               stack'[j].fn = "deliver" => stack'[j + 1].iobuf = stack'[j].iobuf
    /\ (stack # <<>> /\ Top.fn \in Forwarders \cup {"redirect"}) =>
        /\ Popped
        /\ ret' = [fn |-> Top.fn, xfer |-> Top.xfer, rc |-> ret.rc]
        /\ UNCHANGED <<dest, refcnt>>

\* C14: seek, vredirect, redirect, deliver and deliver_raw hand their
\* arguments on unchanged (the position; the location type and argument list;
\* the same buffer; the same data and length), return the status the
\* operation returned, success or failure, and change no destination and no
\* reference count.
C14_ForwardUnchanged == [](C14_Inv) /\ [][C14_Step]_vars

\* C14 witness: vredirect, called by redirect with a location type and one
\* argument, is about to hand on the failure B's operation returned.
C14_Witness ==
    /\ Len(stack) = 2
    /\ stack[1].fn = "redirect" /\ stack[1].args # <<>>
    /\ Running("vredirect", "resume")
    /\ Top.args = stack[1].args /\ Top.val = stack[1].val
    /\ ret.fn = "native_vredirect" /\ ret.rc # 0

C15_Inv ==
    \A i \in Frames :
        stack[i].fn = "close" =>
            /\ stack[i].pc \in {"wait", "resume"}
            /\ stack[i].pc = "wait" => i < Len(stack)
            /\ stack[i].pc = "resume" =>
                /\ i = Len(stack)
                /\ ret.fn = ops[stack[i].entry].close
                /\ ret.xfer = stack[i].entry

C15_Step ==
    /\ (Len(stack') = Len(stack) + 2 /\ stack'[Len(stack) + 1].fn = "close") =>
        /\ dest' = dest
        /\ dest'[stack'[Len(stack) + 1].xfer] = stack'[Len(stack) + 1].entry
        /\ stack'[Len(stack) + 1].pc = "wait"
        /\ stack'[Len(stack) + 2].pc = "run"
    /\ \A i \in Frames :
        (stack[i].fn = "close" /\ stack[i].pc = "wait"
            /\ dest'[stack[i].xfer] # dest[stack[i].xfer]) =>
                \/ stack' = stack /\ CanCall
                \/ /\ Len(stack) > i
                   /\ Top.fn = "close" /\ Top.xfer = stack[i].xfer
    /\ (stack # <<>> /\ Top.fn = "close") =>
        /\ Popped
        /\ dest'[Top.xfer] = Null
        /\ ret' = [fn |-> "close", xfer |-> Top.xfer, rc |-> 0]

\* C15: close ( H, rc ) first calls the peer's close operation, leaving every
\* destination as it is, so the operation starts with H still plugged into
\* the peer resolved at entry; while the operation runs H's destination
\* changes only by what the operation itself does (a plug or unplug of H, a
\* nested close of H); H is unplugged only once the operation has returned,
\* in the step by which close returns.
C15_UnplugAfterPeerClose == [](C15_Inv) /\ [][C15_Step]_vars

\* C15 witness: B's close operation runs on behalf of close ( A, rc ) and A
\* is still plugged into B.
C15_Witness ==
    /\ Len(stack) = 2
    /\ stack[1].fn = "close" /\ stack[1].xfer = "A" /\ stack[1].entry = "B"
    /\ stack[1].pc = "wait"
    /\ stack[2].fn = "native_close" /\ stack[2].xfer = "B" /\ stack[2].pc = "run"
    /\ dest["A"] = "B"
    /\ ret = NoRet

\* Some endpoint's close operation closes its interface only once.
SomeOnce == \E h \in User : ops[h].close = "close_own_once"

\* The close operations under way.
CloseOpFrames == {i \in Frames : stack[i].fn \in CloseOps}

C16_Inv ==
    /\ SomeOnce =>
        /\ Cardinality(CloseOpFrames) <= 3
        /\ Len(stack) <= 6
        /\ stack # <<>> => ENABLED NextReact
    /\ (stack = <<>> /\ ret.fn = "close") => (dest["A"] = Null /\ dest["B"] = Null)
    /\ (~SomeOnce /\ stack # <<>>) =>
        /\ ret = NoRet
        /\ dest["A"] = "B" /\ dest["B"] = "A"
        /\ Running("close_own", "run")
        /\ stack[Len(stack) - 1].fn = "close" /\ stack[Len(stack) - 1].entry = Top.xfer

C16_Step == ~SomeOnce => Len(stack') = Len(stack) + 2

PluggedInto(u) == {h \in Handles : dest[h] = u}

\* C17: after any sequence of plug, unplug and close, nested ones included,
\* the references held on an endpoint on behalf of connections are as many as
\* the interfaces whose destination it is, never fewer than none; the null
\* interface, having no counter, is never counted on or released.
C17_RefcntConservation ==
    /\ \A u \in User :
        /\ refcnt[u] = Cardinality(PluggedInto(u))
        /\ refcnt[u] >= 0
    /\ refcnt[Null] = 0 /\ PluggedInto(Null) # {}

\* C17 witness: B's close operation, called by close ( A, rc ), closed A
\* itself; that nested close released the one reference held on B, and the
\* outer close is still to unplug A a second time.
C17_Witness ==
    /\ Len(stack) = 2
    /\ stack[1].fn = "close" /\ stack[1].xfer = "A" /\ stack[1].entry = "B"
    /\ stack[2].fn = "native_close" /\ stack[2].xfer = "B"
    /\ ret = [fn |-> "close", xfer |-> "A", rc |-> 0]
    /\ dest["A"] = Null /\ dest["B"] = "A"
    /\ refcnt["B"] = 0 /\ refcnt["A"] = 1

\* The buffers currently allocated.
LiveIobs == {id \in IobIds : iob[id].live}

\* The implementations an adaptor ends at.
DeliverImpls == {"native_deliver", "native_deliver_raw", "ignore_deliver_raw"}

AdaptorStep ==
    \/ DeliverAsRawCall \/ DeliverAsRawRet
    \/ DeliverAsIobufNoMem \/ DeliverAsIobufCall \/ DeliverAsIobufRet

C18_Inv ==
    /\ \A h \in Handles :
        Cardinality({ops[h].deliver, ops[h].deliver_raw} \cap Adaptors) = 1
    /\ \A i \in Frames :
        stack[i].fn \in Adaptors =>
            /\ i > 1
            /\ stack[i - 1].fn \in {"deliver", "deliver_raw"}
            /\ stack[i - 1].pc = "wait"
            /\ stack[i].pc = "wait" =>
                /\ stack[i + 1].fn \in DeliverImpls
                /\ stack[i + 1].xfer = stack[i].xfer
    /\ (stack # <<>> /\ Top.fn \in Adaptors) => ENABLED AdaptorStep

C18_Step ==
    (stack # <<>> /\ Top.fn \in Adaptors) =>
        \/ /\ Top.pc = "run"
           /\ Len(stack') = Len(stack) + 1
           /\ stack'[Len(stack')].fn \in DeliverImpls
           /\ IF Top.fn = "deliver_as_iobuf"
              THEN \E id \in IobIds \ LiveIobs : LiveIobs' = LiveIobs \cup {id}
              ELSE iob' = iob
        \/ /\ Top.pc = "run" /\ Top.fn = "deliver_as_iobuf"
           /\ Popped /\ iob' = iob
        \/ /\ Top.pc = "resume"
           /\ Popped
           /\ IF Top.fn = "deliver_as_raw"
              THEN LiveIobs' = LiveIobs \ {Top.iobuf} /\ Top.iobuf \in LiveIobs
              ELSE iob' = iob

\* C18: at an endpoint whose table has one implementation of the delivery
\* pair and the adaptor for the other, an adaptor is entered only from deliver
\* or deliver_raw, always has a step to take, calls the implementation (never
\* an adaptor) in its first step and returns in its second; deliver_as_iobuf
\* allocates one buffer and frees none, deliver_as_raw allocates none and
\* frees one.
C18_AdaptorOneStep == [](C18_Inv) /\ [][C18_Step]_vars

\* C18 witness: deliver_raw dispatched to B reached B's deliver through
\* deliver_as_iobuf, which allocated the one live buffer; the implementation
\* has returned and the adaptor is about to.
C18_Witness ==
    /\ Len(stack) = 2
    /\ stack[1].fn = "deliver_raw" /\ stack[1].entry = "B"
    /\ Running("deliver_as_iobuf", "resume")
    /\ ret.fn = "native_deliver" /\ ret.xfer = "B"
    /\ Top.iobuf # NoIob

====
